---- MODULE Spec2Model ----
(***************************************************************************)
(* Model of src/core/concurrent.rs: the unbounded blocking Queue and the   *)
(* BoundedQueue.  Each handle holds an Arc pointer to one heap box         *)
(* (QueueBox / BoundedQueueBox: deque, mutex, not_empty, not_full,         *)
(* maximum).  Every thread runs push / pop / clone through a handle, one   *)
(* statement of the source per step.                                       *)
(***************************************************************************)
EXTENDS Integers, Sequences, FiniteSets

\* ---- bounds of the model ----
NThreads == 3
MaxHandles == 2
MaxBoxes == 2
MaxVal == 2
MaxCap == 2
MaxCalls == 4

Threads == 1..NThreads
Handles == 1..MaxHandles
Boxes == 1..MaxBoxes
Values == 1..MaxVal

VARIABLES
    kind,       \* kind[b]: "none" (unallocated), "Queue" or "BoundedQueue"
    deque,      \* deque[b]: the element sequence of box b, front first
    mutex,      \* mutex[b]: 0 when free, otherwise the thread holding it
    not_empty,  \* not_empty[b]: threads parked on the not_empty condition
    not_full,   \* not_full[b]: threads parked on the not_full condition
    maximum,    \* maximum[b]: capacity of a BoundedQueueBox
    ptr,        \* ptr[h]: box the handle h points to, 0 when h does not exist
    pc,         \* pc[t]: statement thread t is at
    self,       \* self[t]: handle thread t called through, 0 when idle
    box,        \* box[t]: the borrowed box of the running call, 0 when idle
    item,       \* item[t]: argument of the running push / value taken by pop
    pushed,     \* history: pushed[b] values appended to b, in append order
    popped,     \* history: popped[b] values removed from b, in removal order
    returned,   \* history: returned[b][v] number of pops that returned v
    via,        \* history: via[b] handle that appended each element of deque[b]
    from,       \* history: from[t] handle that pushed the value t's running pop took
    mark,       \* history: mark[t] see CallMark
    lenBefore,  \* history: lenBefore[t] length read just before t's append
    waited,     \* history: waited[t] the running call has parked on a condition
    ninvPush,   \* number of push invocations so far
    ninvPop     \* number of pop invocations so far

heap == <<kind, deque, mutex, not_empty, not_full, maximum>>
hist == <<pushed, popped, returned, via>>
vars == <<kind, deque, mutex, not_empty, not_full, maximum, ptr, pc, self, box,
          item, pushed, popped, returned, via, from, mark, lenBefore, waited,
          ninvPush, ninvPop>>

\* ---- the external primitives (super::thread, super::deque, super::arc) ----

\* Mutex::lock can return only when nobody holds the mutex
MutexFree(b) == mutex[b] = 0

\* position of a parked thread once it has been taken out of the wait set:
\* it still has to re-acquire the mutex before wait returns
Woken(p) ==
    CASE p = "qpop_wait" -> "qpop_woken"
      [] p = "bpop_wait" -> "bpop_woken"
      [] p = "bpush_wait" -> "bpush_woken"
      [] OTHER -> p

\* Cond::signal on a wait set ws: pcs after waking w
WakeOne(w) == [pc EXCEPT ![w] = Woken(pc[w])]

\* Arc::clone yields a pointer to the same box
ArcClone(p) == p

\* ---- initial states ----

\* values an element can have: those of the calls, and 1, 2, 3 of the scenario
AllValues == 1..(IF MaxVal > 3 THEN MaxVal ELSE 3)

NoBag == [v \in AllValues |-> 0]

InitThreads ==
    /\ pc = [t \in Threads |-> "idle"]
    /\ self = [t \in Threads |-> 0]
    /\ box = [t \in Threads |-> 0]
    /\ item = [t \in Threads |-> 0]
    /\ mark = [t \in Threads |-> -1]
    /\ lenBefore = [t \in Threads |-> -1]
    /\ waited = [t \in Threads |-> FALSE]
    /\ from = [t \in Threads |-> 0]
    /\ ninvPush = 0
    /\ ninvPop = 0

InitHeap(k, m, hs) ==
    /\ kind = [b \in Boxes |-> IF b = 1 THEN k ELSE "none"]
    /\ deque = [b \in Boxes |-> <<>>]
    /\ mutex = [b \in Boxes |-> 0]
    /\ not_empty = [b \in Boxes |-> {}]
    /\ not_full = [b \in Boxes |-> {}]
    /\ maximum = [b \in Boxes |-> IF b = 1 THEN m ELSE 0]
    /\ ptr = [h \in Handles |-> IF h \in hs THEN 1 ELSE 0]
    /\ pushed = [b \in Boxes |-> <<>>]
    /\ popped = [b \in Boxes |-> <<>>]
    /\ returned = [b \in Boxes |-> NoBag]
    /\ via = [b \in Boxes |-> <<>>]

\* Queue::new()
QueueNew == InitHeap("Queue", 0, {1})

\* BoundedQueue::new(maximum)
BoundedQueueNew(m) == InitHeap("BoundedQueue", m, {1})

Init ==
    /\ InitThreads
    /\ \/ QueueNew
       \/ \E m \in 0..MaxCap : BoundedQueueNew(m)

\* ---- helpers shared by the calls ----

\* history taken at the invocation of a call: when the call finds its
\* blocking condition true (cond), the number of counterpart operations
\* (n) that had happened by then; -1 otherwise
CallMark(cond, n) == IF cond THEN n ELSE -1

Enter(t, h, v, first) ==
    /\ pc[t] = "idle"
    /\ ptr[h] # 0
    /\ pc' = [pc EXCEPT ![t] = first]
    /\ self' = [self EXCEPT ![t] = h]
    /\ box' = [box EXCEPT ![t] = ptr[h]]
    /\ item' = [item EXCEPT ![t] = v]
    /\ UNCHANGED <<heap, ptr, hist, from, lenBefore, waited>>

\* the call returns: its frame (and the history kept for it) is gone
Leave(t) ==
    /\ self' = [self EXCEPT ![t] = 0]
    /\ box' = [box EXCEPT ![t] = 0]
    /\ item' = [item EXCEPT ![t] = 0]
    /\ mark' = [mark EXCEPT ![t] = -1]
    /\ lenBefore' = [lenBefore EXCEPT ![t] = -1]
    /\ waited' = [waited EXCEPT ![t] = FALSE]
    /\ from' = [from EXCEPT ![t] = 0]

\* ---- Queue::pop ----

CallQueuePop(t, h) ==
    /\ Enter(t, h, 0, "qpop_lock")
    /\ kind[ptr[h]] = "Queue"
    /\ mark' = [mark EXCEPT ![t] = CallMark(Len(deque[ptr[h]]) = 0, Len(pushed[ptr[h]]))]
    /\ ninvPop' = ninvPop + 1
    /\ UNCHANGED ninvPush

\* let mut guard = box.mutex.lock_guard();
QueuePopLock(t) ==
    /\ pc[t] = "qpop_lock"
    /\ MutexFree(box[t])
    /\ mutex' = [mutex EXCEPT ![box[t]] = t]
    /\ pc' = [pc EXCEPT ![t] = "qpop_check"]
    /\ UNCHANGED <<kind, deque, not_empty, not_full, maximum, ptr, self, box, item,
                   hist, from, mark, lenBefore, waited, ninvPush, ninvPop>>

\* mutant: the wait parks the consumer without releasing the mutex
QueuePopCheckKeepLock(t) ==
    /\ pc[t] = "qpop_check"
    /\ IF Len(deque[box[t]]) = 0
       THEN /\ not_empty' = [not_empty EXCEPT ![box[t]] = @ \cup {t}]
            /\ pc' = [pc EXCEPT ![t] = "qpop_wait"]
            /\ waited' = [waited EXCEPT ![t] = TRUE]
            /\ UNCHANGED mutex
       ELSE /\ pc' = [pc EXCEPT ![t] = "qpop_take"]
            /\ UNCHANGED <<mutex, not_empty, waited>>
    /\ UNCHANGED <<kind, deque, not_full, maximum, ptr, self, box, item,
                   hist, from, mark, lenBefore, ninvPush, ninvPop>>

\* while box.deque.len() == 0 { box.not_empty.wait_guard(&mut guard) }
QueuePopCheck(t) ==
    /\ pc[t] = "qpop_check"
    /\ IF Len(deque[box[t]]) = 0
       THEN /\ mutex' = [mutex EXCEPT ![box[t]] = 0]
            /\ not_empty' = [not_empty EXCEPT ![box[t]] = @ \cup {t}]
            /\ pc' = [pc EXCEPT ![t] = "qpop_wait"]
            /\ waited' = [waited EXCEPT ![t] = TRUE]
       ELSE /\ pc' = [pc EXCEPT ![t] = "qpop_take"]
            /\ UNCHANGED <<mutex, not_empty, waited>>
    /\ UNCHANGED <<kind, deque, not_full, maximum, ptr, self, box, item,
                   hist, from, mark, lenBefore, ninvPush, ninvPop>>

\* mutant: `if` instead of `while`, the woken consumer does not re-check
QueuePopWokenNoRecheck(t) ==
    /\ pc[t] = "qpop_woken"
    /\ MutexFree(box[t])
    /\ mutex' = [mutex EXCEPT ![box[t]] = t]
    /\ pc' = [pc EXCEPT ![t] = "qpop_take"]
    /\ UNCHANGED <<kind, deque, not_empty, not_full, maximum, ptr, self, box, item,
                   hist, from, mark, lenBefore, waited, ninvPush, ninvPop>>

\* wait_guard re-acquires the mutex before it returns
QueuePopWoken(t) ==
    /\ pc[t] = "qpop_woken"
    /\ MutexFree(box[t])
    /\ mutex' = [mutex EXCEPT ![box[t]] = t]
    /\ pc' = [pc EXCEPT ![t] = "qpop_check"]
    /\ UNCHANGED <<kind, deque, not_empty, not_full, maximum, ptr, self, box, item,
                   hist, from, mark, lenBefore, waited, ninvPush, ninvPop>>

\* mutant: the front element is read but left in the deque
QueuePopTakeFront(t) ==
    /\ pc[t] = "qpop_take"
    /\ IF Len(deque[box[t]]) = 0
       THEN /\ pc' = [pc EXCEPT ![t] = "failed"]
            /\ UNCHANGED <<item, popped, from>>
       ELSE /\ item' = [item EXCEPT ![t] = Head(deque[box[t]])]
            /\ popped' = [popped EXCEPT ![box[t]] = Append(@, Head(deque[box[t]]))]
            /\ from' = [from EXCEPT ![t] = Head(via[box[t]])]
            /\ pc' = [pc EXCEPT ![t] = "qpop_drop"]
    /\ UNCHANGED <<kind, deque, mutex, not_empty, not_full, maximum, ptr, self, box,
                   pushed, returned, via, mark, lenBefore, waited, ninvPush, ninvPop>>

\* box.deque.pop_front().get()
QueuePopTake(t) ==
    /\ pc[t] = "qpop_take"
    /\ IF Len(deque[box[t]]) = 0
       THEN /\ pc' = [pc EXCEPT ![t] = "failed"]
            /\ UNCHANGED <<deque, item, popped, via, from>>
       ELSE /\ item' = [item EXCEPT ![t] = Head(deque[box[t]])]
            /\ deque' = [deque EXCEPT ![box[t]] = Tail(@)]
            /\ popped' = [popped EXCEPT ![box[t]] = Append(@, Head(deque[box[t]]))]
            /\ via' = [via EXCEPT ![box[t]] = Tail(@)]
            /\ from' = [from EXCEPT ![t] = Head(via[box[t]])]
            /\ pc' = [pc EXCEPT ![t] = "qpop_drop"]
    /\ UNCHANGED <<kind, mutex, not_empty, not_full, maximum, ptr, self, box,
                   pushed, returned, mark, lenBefore, waited, ninvPush, ninvPop>>

\* the guard goes out of scope (the mutex is released) and pop returns
QueuePopReturn(t) ==
    /\ pc[t] = "qpop_drop"
    /\ mutex' = [mutex EXCEPT ![box[t]] = 0]
    /\ returned' = [returned EXCEPT ![box[t]][item[t]] = @ + 1]
    /\ pc' = [pc EXCEPT ![t] = "idle"]
    /\ Leave(t)
    /\ UNCHANGED <<kind, deque, not_empty, not_full, maximum, ptr,
                   pushed, popped, via, ninvPush, ninvPop>>

\* ---- Queue::push ----

CallQueuePush(t, h, v) ==
    /\ Enter(t, h, v, "qpush_lock")
    /\ kind[ptr[h]] = "Queue"
    /\ mark' = [mark EXCEPT ![t] = -1]
    /\ ninvPush' = ninvPush + 1
    /\ UNCHANGED ninvPop

\* mutant: the lock is taken without waiting for the holder to release it
QueuePushLockBarging(t) ==
    /\ pc[t] = "qpush_lock"
    /\ mutex' = [mutex EXCEPT ![box[t]] = t]
    /\ pc' = [pc EXCEPT ![t] = "qpush_back"]
    /\ UNCHANGED <<kind, deque, not_empty, not_full, maximum, ptr, self, box, item,
                   hist, from, mark, lenBefore, waited, ninvPush, ninvPop>>

\* box.mutex.lock();
QueuePushLock(t) ==
    /\ pc[t] = "qpush_lock"
    /\ MutexFree(box[t])
    /\ mutex' = [mutex EXCEPT ![box[t]] = t]
    /\ pc' = [pc EXCEPT ![t] = "qpush_back"]
    /\ UNCHANGED <<kind, deque, not_empty, not_full, maximum, ptr, self, box, item,
                   hist, from, mark, lenBefore, waited, ninvPush, ninvPop>>

\* mutant: push inserts its item at the front of the deque
QueuePushFront(t) ==
    /\ pc[t] = "qpush_back"
    /\ deque' = [deque EXCEPT ![box[t]] = <<item[t]>> \o @]
    /\ pushed' = [pushed EXCEPT ![box[t]] = Append(@, item[t])]
    /\ via' = [via EXCEPT ![box[t]] = <<self[t]>> \o @]
    /\ lenBefore' = [lenBefore EXCEPT ![t] = Len(deque[box[t]])]
    /\ pc' = [pc EXCEPT ![t] = "qpush_unlock"]
    /\ UNCHANGED <<kind, mutex, not_empty, not_full, maximum, ptr, self, box, item,
                   popped, returned, from, mark, waited, ninvPush, ninvPop>>

\* box.deque.push_back(item);
QueuePushBack(t) ==
    /\ pc[t] = "qpush_back"
    /\ deque' = [deque EXCEPT ![box[t]] = Append(@, item[t])]
    /\ pushed' = [pushed EXCEPT ![box[t]] = Append(@, item[t])]
    /\ via' = [via EXCEPT ![box[t]] = Append(@, self[t])]
    /\ lenBefore' = [lenBefore EXCEPT ![t] = Len(deque[box[t]])]
    /\ pc' = [pc EXCEPT ![t] = "qpush_unlock"]
    /\ UNCHANGED <<kind, mutex, not_empty, not_full, maximum, ptr, self, box, item,
                   popped, returned, from, mark, waited, ninvPush, ninvPop>>

\* mutant: push forgets to release the mutex
QueuePushUnlockMissing(t) ==
    /\ pc[t] = "qpush_unlock"
    /\ pc' = [pc EXCEPT ![t] = "qpush_signal"]
    /\ UNCHANGED <<kind, deque, mutex, not_empty, not_full, maximum, ptr, self, box, item,
                   hist, from, mark, lenBefore, waited, ninvPush, ninvPop>>

\* box.mutex.unlock();
QueuePushUnlock(t) ==
    /\ pc[t] = "qpush_unlock"
    /\ mutex' = [mutex EXCEPT ![box[t]] = 0]
    /\ pc' = [pc EXCEPT ![t] = "qpush_signal"]
    /\ UNCHANGED <<kind, deque, not_empty, not_full, maximum, ptr, self, box, item,
                   hist, from, mark, lenBefore, waited, ninvPush, ninvPop>>

\* mutant: push signals only when its append found the queue empty
QueuePushSignalIfEmpty(t) ==
    /\ pc[t] = "qpush_signal"
    /\ IF not_empty[box[t]] = {} \/ lenBefore[t] # 0
       THEN /\ pc' = [pc EXCEPT ![t] = "idle"]
            /\ UNCHANGED not_empty
       ELSE \E w \in not_empty[box[t]] :
            /\ not_empty' = [not_empty EXCEPT ![box[t]] = @ \ {w}]
            /\ pc' = [WakeOne(w) EXCEPT ![t] = "idle"]
    /\ Leave(t)
    /\ UNCHANGED <<kind, deque, mutex, not_full, maximum, ptr,
                   hist, ninvPush, ninvPop>>

\* mutant: push broadcasts, every parked consumer is woken
QueuePushSignalAll(t) ==
    /\ pc[t] = "qpush_signal"
    /\ not_empty' = [not_empty EXCEPT ![box[t]] = {}]
    /\ pc' = [u \in Threads |-> IF u = t THEN "idle"
                                ELSE IF u \in not_empty[box[t]] THEN Woken(pc[u])
                                ELSE pc[u]]
    /\ Leave(t)
    /\ UNCHANGED <<kind, deque, mutex, not_full, maximum, ptr,
                   hist, ninvPush, ninvPop>>

\* mutant: push returns without signalling not_empty
QueuePushSignalNone(t) ==
    /\ pc[t] = "qpush_signal"
    /\ pc' = [pc EXCEPT ![t] = "idle"]
    /\ Leave(t)
    /\ UNCHANGED <<kind, deque, mutex, not_empty, not_full, maximum, ptr,
                   hist, ninvPush, ninvPop>>

\* box.not_empty.signal()   and push returns
QueuePushSignal(t) ==
    /\ pc[t] = "qpush_signal"
    /\ IF not_empty[box[t]] = {}
       THEN /\ pc' = [pc EXCEPT ![t] = "idle"]
            /\ UNCHANGED not_empty
       ELSE \E w \in not_empty[box[t]] :
            /\ not_empty' = [not_empty EXCEPT ![box[t]] = @ \ {w}]
            /\ pc' = [WakeOne(w) EXCEPT ![t] = "idle"]
    /\ Leave(t)
    /\ UNCHANGED <<kind, deque, mutex, not_full, maximum, ptr,
                   hist, ninvPush, ninvPop>>

\* ---- Clone for Queue ----

\* mutant: clone allocates a second box and copies the elements into it
QueueCloneDeep(h, h2) ==
    /\ \E t \in Threads : pc[t] = "idle"
    /\ ptr[h] # 0 /\ kind[ptr[h]] = "Queue"
    /\ ptr[h2] = 0
    /\ \E b \in Boxes :
          /\ kind[b] = "none"
          /\ \A c \in Boxes : kind[c] = "none" => b <= c
          /\ kind' = [kind EXCEPT ![b] = "Queue"]
          /\ deque' = [deque EXCEPT ![b] = deque[ptr[h]]]
          /\ via' = [via EXCEPT ![b] = via[ptr[h]]]
          /\ ptr' = [ptr EXCEPT ![h2] = b]
    /\ UNCHANGED <<mutex, not_empty, not_full, maximum, pc, self, box, item,
                   pushed, popped, returned, from, mark, lenBefore, waited,
                   ninvPush, ninvPop>>

\* Queue { ptr: self.ptr.clone() }
QueueClone(h, h2) ==
    /\ \E t \in Threads : pc[t] = "idle"
    /\ ptr[h] # 0 /\ kind[ptr[h]] = "Queue"
    /\ ptr[h2] = 0
    /\ ptr' = [ptr EXCEPT ![h2] = ArcClone(ptr[h])]
    /\ UNCHANGED <<heap, pc, self, box, item, hist, from, mark, lenBefore, waited,
                   ninvPush, ninvPop>>

\* ---- BoundedQueue::pop ----

CallBoundedPop(t, h) ==
    /\ Enter(t, h, 0, "bpop_lock")
    /\ kind[ptr[h]] = "BoundedQueue"
    /\ mark' = [mark EXCEPT ![t] = CallMark(Len(deque[ptr[h]]) = 0, Len(pushed[ptr[h]]))]
    /\ ninvPop' = ninvPop + 1
    /\ UNCHANGED ninvPush

\* box.mutex.lock();
BoundedPopLock(t) ==
    /\ pc[t] = "bpop_lock"
    /\ MutexFree(box[t])
    /\ mutex' = [mutex EXCEPT ![box[t]] = t]
    /\ pc' = [pc EXCEPT ![t] = "bpop_check"]
    /\ UNCHANGED <<kind, deque, not_empty, not_full, maximum, ptr, self, box, item,
                   hist, from, mark, lenBefore, waited, ninvPush, ninvPop>>

\* while box.deque.len() == 0 { box.not_empty.wait(&mut box.mutex) }
BoundedPopCheck(t) ==
    /\ pc[t] = "bpop_check"
    /\ IF Len(deque[box[t]]) = 0
       THEN /\ mutex' = [mutex EXCEPT ![box[t]] = 0]
            /\ not_empty' = [not_empty EXCEPT ![box[t]] = @ \cup {t}]
            /\ pc' = [pc EXCEPT ![t] = "bpop_wait"]
            /\ waited' = [waited EXCEPT ![t] = TRUE]
       ELSE /\ pc' = [pc EXCEPT ![t] = "bpop_take"]
            /\ UNCHANGED <<mutex, not_empty, waited>>
    /\ UNCHANGED <<kind, deque, not_full, maximum, ptr, self, box, item,
                   hist, from, mark, lenBefore, ninvPush, ninvPop>>

\* wait re-acquires the mutex before it returns
BoundedPopWoken(t) ==
    /\ pc[t] = "bpop_woken"
    /\ MutexFree(box[t])
    /\ mutex' = [mutex EXCEPT ![box[t]] = t]
    /\ pc' = [pc EXCEPT ![t] = "bpop_check"]
    /\ UNCHANGED <<kind, deque, not_empty, not_full, maximum, ptr, self, box, item,
                   hist, from, mark, lenBefore, waited, ninvPush, ninvPop>>

\* mutant: pop_back instead of pop_front
BoundedPopTakeBack(t) ==
    /\ pc[t] = "bpop_take"
    /\ IF Len(deque[box[t]]) = 0
       THEN /\ pc' = [pc EXCEPT ![t] = "failed"]
            /\ UNCHANGED <<deque, item, popped, via, from>>
       ELSE /\ item' = [item EXCEPT ![t] = deque[box[t]][Len(deque[box[t]])]]
            /\ deque' = [deque EXCEPT ![box[t]] = SubSeq(@, 1, Len(@) - 1)]
            /\ popped' = [popped EXCEPT ![box[t]] = Append(@, deque[box[t]][Len(deque[box[t]])])]
            /\ via' = [via EXCEPT ![box[t]] = SubSeq(@, 1, Len(@) - 1)]
            /\ from' = [from EXCEPT ![t] = via[box[t]][Len(via[box[t]])]]
            /\ pc' = [pc EXCEPT ![t] = "bpop_unlock"]
    /\ UNCHANGED <<kind, mutex, not_empty, not_full, maximum, ptr, self, box,
                   pushed, returned, mark, lenBefore, waited, ninvPush, ninvPop>>

\* mutant: pop reads the front element and leaves it in the deque
BoundedPopTakeKeep(t) ==
    /\ pc[t] = "bpop_take"
    /\ IF Len(deque[box[t]]) = 0
       THEN /\ pc' = [pc EXCEPT ![t] = "failed"]
            /\ UNCHANGED <<item, popped, from>>
       ELSE /\ item' = [item EXCEPT ![t] = Head(deque[box[t]])]
            /\ popped' = [popped EXCEPT ![box[t]] = Append(@, Head(deque[box[t]]))]
            /\ from' = [from EXCEPT ![t] = Head(via[box[t]])]
            /\ pc' = [pc EXCEPT ![t] = "bpop_unlock"]
    /\ UNCHANGED <<kind, deque, via, mutex, not_empty, not_full, maximum, ptr, self, box,
                   pushed, returned, mark, lenBefore, waited, ninvPush, ninvPop>>

\* let item = box.deque.pop_front().get();
BoundedPopTake(t) ==
    /\ pc[t] = "bpop_take"
    /\ IF Len(deque[box[t]]) = 0
       THEN /\ pc' = [pc EXCEPT ![t] = "failed"]
            /\ UNCHANGED <<deque, item, popped, via, from>>
       ELSE /\ item' = [item EXCEPT ![t] = Head(deque[box[t]])]
            /\ deque' = [deque EXCEPT ![box[t]] = Tail(@)]
            /\ popped' = [popped EXCEPT ![box[t]] = Append(@, Head(deque[box[t]]))]
            /\ via' = [via EXCEPT ![box[t]] = Tail(@)]
            /\ from' = [from EXCEPT ![t] = Head(via[box[t]])]
            /\ pc' = [pc EXCEPT ![t] = "bpop_unlock"]
    /\ UNCHANGED <<kind, mutex, not_empty, not_full, maximum, ptr, self, box,
                   pushed, returned, mark, lenBefore, waited, ninvPush, ninvPop>>

\* mutant: pop signals without having released the mutex
BoundedPopUnlockMissing(t) ==
    /\ pc[t] = "bpop_unlock"
    /\ pc' = [pc EXCEPT ![t] = "bpop_signal"]
    /\ UNCHANGED <<kind, deque, mutex, not_empty, not_full, maximum, ptr, self, box, item,
                   hist, from, mark, lenBefore, waited, ninvPush, ninvPop>>

\* box.mutex.unlock();
BoundedPopUnlock(t) ==
    /\ pc[t] = "bpop_unlock"
    /\ mutex' = [mutex EXCEPT ![box[t]] = 0]
    /\ pc' = [pc EXCEPT ![t] = "bpop_signal"]
    /\ UNCHANGED <<kind, deque, not_empty, not_full, maximum, ptr, self, box, item,
                   hist, from, mark, lenBefore, waited, ninvPush, ninvPop>>

\* mutant: pop forgets to signal not_full
BoundedPopSignalNone(t) ==
    /\ pc[t] = "bpop_signal"
    /\ pc' = [pc EXCEPT ![t] = "idle"]
    /\ returned' = [returned EXCEPT ![box[t]][item[t]] = @ + 1]
    /\ Leave(t)
    /\ UNCHANGED <<kind, deque, mutex, not_empty, not_full, maximum, ptr,
                   pushed, popped, via, ninvPush, ninvPop>>

\* box.not_full.signal(); item
BoundedPopSignal(t) ==
    /\ pc[t] = "bpop_signal"
    /\ IF not_full[box[t]] = {}
       THEN /\ pc' = [pc EXCEPT ![t] = "idle"]
            /\ UNCHANGED not_full
       ELSE \E w \in not_full[box[t]] :
            /\ not_full' = [not_full EXCEPT ![box[t]] = @ \ {w}]
            /\ pc' = [WakeOne(w) EXCEPT ![t] = "idle"]
    /\ returned' = [returned EXCEPT ![box[t]][item[t]] = @ + 1]
    /\ Leave(t)
    /\ UNCHANGED <<kind, deque, mutex, not_empty, maximum, ptr,
                   pushed, popped, via, ninvPush, ninvPop>>

\* ---- BoundedQueue::push ----

CallBoundedPush(t, h, v) ==
    /\ Enter(t, h, v, "bpush_lock")
    /\ kind[ptr[h]] = "BoundedQueue"
    /\ mark' = [mark EXCEPT ![t] = CallMark(Len(deque[ptr[h]]) = maximum[ptr[h]],
                                            Len(popped[ptr[h]]))]
    /\ ninvPush' = ninvPush + 1
    /\ UNCHANGED ninvPop

\* box.mutex.lock();
BoundedPushLock(t) ==
    /\ pc[t] = "bpush_lock"
    /\ MutexFree(box[t])
    /\ mutex' = [mutex EXCEPT ![box[t]] = t]
    /\ pc' = [pc EXCEPT ![t] = "bpush_check"]
    /\ UNCHANGED <<kind, deque, not_empty, not_full, maximum, ptr, self, box, item,
                   hist, from, mark, lenBefore, waited, ninvPush, ninvPop>>

\* mutant: the fullness test is `>` instead of `==`
BoundedPushCheckGreater(t) ==
    /\ pc[t] = "bpush_check"
    /\ IF Len(deque[box[t]]) > maximum[box[t]]
       THEN /\ mutex' = [mutex EXCEPT ![box[t]] = 0]
            /\ not_full' = [not_full EXCEPT ![box[t]] = @ \cup {t}]
            /\ pc' = [pc EXCEPT ![t] = "bpush_wait"]
            /\ waited' = [waited EXCEPT ![t] = TRUE]
       ELSE /\ pc' = [pc EXCEPT ![t] = "bpush_back"]
            /\ UNCHANGED <<mutex, not_full, waited>>
    /\ UNCHANGED <<kind, deque, not_empty, maximum, ptr, self, box, item,
                   hist, from, mark, lenBefore, ninvPush, ninvPop>>

\* mutant: the fullness test is off by one, the last free slot counts as full
BoundedPushCheckEarly(t) ==
    /\ pc[t] = "bpush_check"
    /\ IF Len(deque[box[t]]) + 1 >= maximum[box[t]]
       THEN /\ mutex' = [mutex EXCEPT ![box[t]] = 0]
            /\ not_full' = [not_full EXCEPT ![box[t]] = @ \cup {t}]
            /\ pc' = [pc EXCEPT ![t] = "bpush_wait"]
            /\ waited' = [waited EXCEPT ![t] = TRUE]
       ELSE /\ pc' = [pc EXCEPT ![t] = "bpush_back"]
            /\ UNCHANGED <<mutex, not_full, waited>>
    /\ UNCHANGED <<kind, deque, not_empty, maximum, ptr, self, box, item,
                   hist, from, mark, lenBefore, ninvPush, ninvPop>>

\* while box.deque.len() == box.maximum { box.not_full.wait(&mut box.mutex) }
BoundedPushCheck(t) ==
    /\ pc[t] = "bpush_check"
    /\ IF Len(deque[box[t]]) = maximum[box[t]]
       THEN /\ mutex' = [mutex EXCEPT ![box[t]] = 0]
            /\ not_full' = [not_full EXCEPT ![box[t]] = @ \cup {t}]
            /\ pc' = [pc EXCEPT ![t] = "bpush_wait"]
            /\ waited' = [waited EXCEPT ![t] = TRUE]
       ELSE /\ pc' = [pc EXCEPT ![t] = "bpush_back"]
            /\ UNCHANGED <<mutex, not_full, waited>>
    /\ UNCHANGED <<kind, deque, not_empty, maximum, ptr, self, box, item,
                   hist, from, mark, lenBefore, ninvPush, ninvPop>>

\* mutant: `if` instead of `while`, the woken producer does not re-check
BoundedPushWokenNoRecheck(t) ==
    /\ pc[t] = "bpush_woken"
    /\ MutexFree(box[t])
    /\ mutex' = [mutex EXCEPT ![box[t]] = t]
    /\ pc' = [pc EXCEPT ![t] = "bpush_back"]
    /\ UNCHANGED <<kind, deque, not_empty, not_full, maximum, ptr, self, box, item,
                   hist, from, mark, lenBefore, waited, ninvPush, ninvPop>>

\* wait re-acquires the mutex before it returns
BoundedPushWoken(t) ==
    /\ pc[t] = "bpush_woken"
    /\ MutexFree(box[t])
    /\ mutex' = [mutex EXCEPT ![box[t]] = t]
    /\ pc' = [pc EXCEPT ![t] = "bpush_check"]
    /\ UNCHANGED <<kind, deque, not_empty, not_full, maximum, ptr, self, box, item,
                   hist, from, mark, lenBefore, waited, ninvPush, ninvPop>>

\* box.deque.push_back(item);
BoundedPushBack(t) ==
    /\ pc[t] = "bpush_back"
    /\ deque' = [deque EXCEPT ![box[t]] = Append(@, item[t])]
    /\ pushed' = [pushed EXCEPT ![box[t]] = Append(@, item[t])]
    /\ via' = [via EXCEPT ![box[t]] = Append(@, self[t])]
    /\ lenBefore' = [lenBefore EXCEPT ![t] = Len(deque[box[t]])]
    /\ pc' = [pc EXCEPT ![t] = "bpush_unlock"]
    /\ UNCHANGED <<kind, mutex, not_empty, not_full, maximum, ptr, self, box, item,
                   popped, returned, from, mark, waited, ninvPush, ninvPop>>

\* box.mutex.unlock();
BoundedPushUnlock(t) ==
    /\ pc[t] = "bpush_unlock"
    /\ mutex' = [mutex EXCEPT ![box[t]] = 0]
    /\ pc' = [pc EXCEPT ![t] = "bpush_signal"]
    /\ UNCHANGED <<kind, deque, not_empty, not_full, maximum, ptr, self, box, item,
                   hist, from, mark, lenBefore, waited, ninvPush, ninvPop>>

\* mutant: bounded push returns without signalling not_empty
BoundedPushSignalNone(t) ==
    /\ pc[t] = "bpush_signal"
    /\ pc' = [pc EXCEPT ![t] = "idle"]
    /\ Leave(t)
    /\ UNCHANGED <<kind, deque, mutex, not_empty, not_full, maximum, ptr,
                   hist, ninvPush, ninvPop>>

\* box.not_empty.signal()   and push returns
BoundedPushSignal(t) ==
    /\ pc[t] = "bpush_signal"
    /\ IF not_empty[box[t]] = {}
       THEN /\ pc' = [pc EXCEPT ![t] = "idle"]
            /\ UNCHANGED not_empty
       ELSE \E w \in not_empty[box[t]] :
            /\ not_empty' = [not_empty EXCEPT ![box[t]] = @ \ {w}]
            /\ pc' = [WakeOne(w) EXCEPT ![t] = "idle"]
    /\ Leave(t)
    /\ UNCHANGED <<kind, deque, mutex, not_full, maximum, ptr,
                   hist, ninvPush, ninvPop>>

\* ---- Clone for BoundedQueue ----

\* BoundedQueue { ptr: self.ptr.clone() }
BoundedClone(h, h2) ==
    /\ \E t \in Threads : pc[t] = "idle"
    /\ ptr[h] # 0 /\ kind[ptr[h]] = "BoundedQueue"
    /\ ptr[h2] = 0
    /\ ptr' = [ptr EXCEPT ![h2] = ArcClone(ptr[h])]
    /\ UNCHANGED <<heap, pc, self, box, item, hist, from, mark, lenBefore, waited,
                   ninvPush, ninvPop>>

\* ---- the condition variable's own step ----

\* a parked thread may leave its wait without any signal
SpuriousWake(t) ==
    /\ pc[t] \in {"qpop_wait", "bpop_wait", "bpush_wait"}
    /\ not_empty' = [not_empty EXCEPT ![box[t]] = @ \ {t}]
    /\ not_full' = [not_full EXCEPT ![box[t]] = @ \ {t}]
    /\ pc' = WakeOne(t)
    /\ UNCHANGED <<kind, deque, mutex, maximum, ptr, self, box, item,
                   hist, from, mark, lenBefore, waited, ninvPush, ninvPop>>

\* the calls of one run are bounded
Budget == ninvPush + ninvPop < MaxCalls

\* every thread owns one handle value (a Queue / BoundedQueue struct): thread 1
\* the constructed one, the others a clone, dealt out in turn
Holds(t, h) == h = ((t - 1) % MaxHandles) + 1

QueueNext ==
    \/ \E t \in Threads, h \in Handles : Holds(t, h) /\ Budget /\ CallQueuePop(t, h)
    \/ \E t \in Threads : QueuePopLock(t)
    \/ \E t \in Threads : QueuePopCheck(t)
    \/ \E t \in Threads : QueuePopWoken(t)
    \/ \E t \in Threads : QueuePopTake(t)
    \/ \E t \in Threads : QueuePopReturn(t)
    \/ \E t \in Threads, h \in Handles, v \in Values : Holds(t, h) /\ Budget /\ CallQueuePush(t, h, v)
    \/ \E t \in Threads : QueuePushLock(t)
    \/ \E t \in Threads : QueuePushBack(t)
    \/ \E t \in Threads : QueuePushUnlock(t)
    \/ \E t \in Threads : QueuePushSignal(t)
    \/ \E h, h2 \in Handles : QueueClone(h, h2)

BoundedNext ==
    \/ \E t \in Threads, h \in Handles : Holds(t, h) /\ Budget /\ CallBoundedPop(t, h)
    \/ \E t \in Threads : BoundedPopLock(t)
    \/ \E t \in Threads : BoundedPopCheck(t)
    \/ \E t \in Threads : BoundedPopWoken(t)
    \/ \E t \in Threads : BoundedPopTake(t)
    \/ \E t \in Threads : BoundedPopUnlock(t)
    \/ \E t \in Threads : BoundedPopSignal(t)
    \/ \E t \in Threads, h \in Handles, v \in Values : Holds(t, h) /\ Budget /\ CallBoundedPush(t, h, v)
    \/ \E t \in Threads : BoundedPushLock(t)
    \/ \E t \in Threads : BoundedPushCheck(t)
    \/ \E t \in Threads : BoundedPushWoken(t)
    \/ \E t \in Threads : BoundedPushBack(t)
    \/ \E t \in Threads : BoundedPushUnlock(t)
    \/ \E t \in Threads : BoundedPushSignal(t)
    \/ \E h, h2 \in Handles : BoundedClone(h, h2)

Next ==
    \/ QueueNext
    \/ BoundedNext
    \/ \E t \in Threads : SpuriousWake(t)

Spec == Init /\ [][Next]_vars

\* ---- scheduling ----

\* the steps of thread t that never wait for another thread
Step(t) ==
    \/ QueuePopCheck(t) \/ QueuePopTake(t) \/ QueuePopReturn(t)
    \/ QueuePushBack(t) \/ QueuePushUnlock(t) \/ QueuePushSignal(t)
    \/ BoundedPopCheck(t) \/ BoundedPopTake(t) \/ BoundedPopUnlock(t) \/ BoundedPopSignal(t)
    \/ BoundedPushCheck(t) \/ BoundedPushBack(t) \/ BoundedPushUnlock(t) \/ BoundedPushSignal(t)

\* the steps of thread t that acquire the mutex
Acquire(t) ==
    \/ QueuePopLock(t) \/ QueuePopWoken(t) \/ QueuePushLock(t)
    \/ BoundedPopLock(t) \/ BoundedPopWoken(t)
    \/ BoundedPushLock(t) \/ BoundedPushWoken(t)

\* fair scheduling of the threads and fair acquisition of the mutex; no
\* call, clone or spurious wakeup is ever forced
Fairness == \A t \in Threads : WF_vars(Step(t)) /\ SF_vars(Acquire(t))

\* the runs checked for progress: the queue has been constructed and every
\* thread has been given its handle; all calls push the same value
LiveInit ==
    /\ InitThreads
    /\ \/ InitHeap("Queue", 0, Handles)
       \/ \E m \in 0..MaxCap : InitHeap("BoundedQueue", m, Handles)

LiveNext ==
    \/ \E t \in Threads, h \in Handles : Holds(t, h) /\ Budget /\ CallQueuePop(t, h)
    \/ \E t \in Threads, h \in Handles : Holds(t, h) /\ Budget /\ CallQueuePush(t, h, 1)
    \/ \E t \in Threads, h \in Handles : Holds(t, h) /\ Budget /\ CallBoundedPop(t, h)
    \/ \E t \in Threads, h \in Handles : Holds(t, h) /\ Budget /\ CallBoundedPush(t, h, 1)
    \/ \E t \in Threads : Step(t)
    \/ \E t \in Threads : Acquire(t)
    \/ \E t \in Threads : SpuriousWake(t)

FairSpec == LiveInit /\ [][LiveNext]_vars /\ Fairness

\* ---- the capacity-2 scenario ----

Main == 1
Second == 2

ScenarioInit == InitThreads /\ BoundedQueueNew(2)

\* main: push(1); push(2)
ScenarioMainPush ==
    /\ ninvPush < 2
    /\ CallBoundedPush(Main, 1, ninvPush + 1)

\* main hands a clone of the queue to the second thread ...
ScenarioClone == ninvPush = 2 /\ pc[Main] = "idle" /\ BoundedClone(1, 2)

\* ... which calls push(3)
ScenarioSecondPush ==
    /\ ninvPush = 2
    /\ pc[Main] = "idle"
    /\ CallBoundedPush(Second, 2, 3)

\* main: pop(); pop(); pop()
ScenarioMainPop ==
    /\ ninvPush = 3
    /\ ninvPop < 3
    /\ CallBoundedPop(Main, 1)

ScenarioNext ==
    \/ ScenarioMainPush
    \/ ScenarioClone
    \/ ScenarioSecondPush
    \/ ScenarioMainPop
    \/ \E t \in Threads : BoundedPopLock(t)
    \/ \E t \in Threads : BoundedPopCheck(t)
    \/ \E t \in Threads : BoundedPopWoken(t)
    \/ \E t \in Threads : BoundedPopTake(t)
    \/ \E t \in Threads : BoundedPopUnlock(t)
    \/ \E t \in Threads : BoundedPopSignal(t)
    \/ \E t \in Threads : BoundedPushLock(t)
    \/ \E t \in Threads : BoundedPushCheck(t)
    \/ \E t \in Threads : BoundedPushWoken(t)
    \/ \E t \in Threads : BoundedPushBack(t)
    \/ \E t \in Threads : BoundedPushUnlock(t)
    \/ \E t \in Threads : BoundedPushSignal(t)
    \/ \E t \in Threads : SpuriousWake(t)

\* the script itself keeps running: main and the spawn are never stopped
ScenarioSpec ==
    /\ ScenarioInit /\ [][ScenarioNext]_vars /\ Fairness
    /\ WF_vars(ScenarioMainPush) /\ WF_vars(ScenarioClone)
    /\ WF_vars(ScenarioSecondPush) /\ WF_vars(ScenarioMainPop)

\* ---- properties ----

Count(seq, v) == Cardinality({i \in DOMAIN seq : seq[i] = v})

IsPrefix(p, q) == Len(p) <= Len(q) /\ \A i \in 1..Len(p) : p[i] = q[i]

\* pcs of a pop that has removed its element and has not returned yet
TakenPcs == {"qpop_drop", "bpop_unlock", "bpop_signal"}

\* pcs of a bounded push that has appended its item and has not returned yet
AppendedPcs == {"bpush_unlock", "bpush_signal"}

\* pcs between acquiring the mutex and releasing it (or parking)
LockedPcs == {"qpop_check", "qpop_take", "qpop_drop", "qpush_back", "qpush_unlock",
              "bpop_check", "bpop_take", "bpop_unlock",
              "bpush_check", "bpush_back", "bpush_unlock"}

\* pcs of a thread blocked in Mutex::lock or in the re-acquisition of a wait
AcquirePcs == {"qpop_lock", "qpop_woken", "qpush_lock",
               "bpop_lock", "bpop_woken", "bpush_lock", "bpush_woken"}

InFlight(b, v) == Cardinality({t \in Threads : pc[t] \in TakenPcs /\ box[t] = b /\ item[t] = v})

\* C1: a BoundedQueue of capacity K >= 1 never holds fewer than 0 or more
\* than K elements, whatever the interleaving and the spurious wakeups
C1_LengthBounded ==
    \A b \in Boxes : kind[b] = "BoundedQueue" /\ maximum[b] >= 1
        => 0 <= Len(deque[b]) /\ Len(deque[b]) <= maximum[b]

\* C1 witness: the queue is full and a producer that parked on not_full has
\* been woken and is about to re-check
C1_Witness ==
    \E t \in Threads : /\ pc[t] = "bpush_woken"
                       /\ maximum[box[t]] >= 1
                       /\ Len(deque[box[t]]) = maximum[box[t]]

\* C2: the values removed by pops, in removal order, are always a prefix of
\* the values appended by pushes, in append order (both queues)
C2_Fifo == \A b \in Boxes : IsPrefix(popped[b], pushed[b])

\* C2 witness: two different values were pushed and both popped, by calls of
\* more than one thread
C2_Witness ==
    \E b \in Boxes : /\ Len(popped[b]) >= 2
                     /\ popped[b][1] # popped[b][2]
                     /\ ninvPush + ninvPop >= 4

\* C3 as stated: pushed values = values returned by pops + values in the queue
C3_NoLossAsStated ==
    \A b \in Boxes, v \in AllValues :
        Count(pushed[b], v) = returned[b][v] + Count(deque[b], v)

\* C3 amended: pushed values = values returned by pops + values in the queue
\* + values removed by pops that have not returned yet; so once every call
\* has returned, with as many pops as pushes, the returned values are the
\* pushed values
C3_NoLoss ==
    /\ \A b \in Boxes, v \in AllValues :
          Count(pushed[b], v) = returned[b][v] + Count(deque[b], v) + InFlight(b, v)
    /\ (\A t \in Threads : pc[t] = "idle") /\ ninvPush = ninvPop
          => \A b \in Boxes, v \in AllValues : Count(pushed[b], v) = returned[b][v]

\* C3 witness: two pushes and two pops have all returned
C3_Witness ==
    /\ \A t \in Threads : pc[t] = "idle"
    /\ ninvPush = 2 /\ ninvPop = 2
    /\ \E b \in Boxes : Len(pushed[b]) = 2 /\ Len(popped[b]) = 2

\* C4: a pop never reaches or performs its removal on an empty queue; a pop
\* invoked on an empty queue removes only after a later push has appended;
\* and while nothing was pushed nothing is removed or returned
C4_PopNeverOnEmpty ==
    /\ \A t \in Threads : pc[t] # "failed"
    /\ \A t \in Threads : pc[t] \in {"qpop_take", "bpop_take"} => Len(deque[box[t]]) > 0
    /\ \A t \in Threads : pc[t] \in TakenPcs /\ mark[t] >= 0
          => Len(pushed[box[t]]) > mark[t]
    /\ \A b \in Boxes : pushed[b] = <<>>
          => popped[b] = <<>> /\ \A v \in AllValues : returned[b][v] = 0

\* C4 witness: a pop invoked on an empty queue parked, a push appended, another
\* consumer took the element, and the woken pop re-checks an empty queue
C4_Witness ==
    \E t \in Threads : /\ pc[t] \in {"qpop_check", "bpop_check"}
                       /\ waited[t]
                       /\ Len(deque[box[t]]) = 0
                       /\ mark[t] >= 0 /\ Len(pushed[box[t]]) > mark[t]

\* C5: a bounded push (K >= 1) appends only below capacity, and a push
\* invoked on a full queue has appended only if a pop removed an element
\* after the invocation
C5_Backpressure ==
    /\ \A t \in Threads : pc[t] = "bpush_back" /\ maximum[box[t]] >= 1
          => Len(deque[box[t]]) < maximum[box[t]]
    /\ \A t \in Threads : pc[t] \in AppendedPcs /\ maximum[box[t]] >= 1 /\ mark[t] >= 0
          => Len(popped[box[t]]) > mark[t]

\* C5 witness: a push invoked on a full queue has parked and, after a pop,
\* appended its item
C5_Witness ==
    \E t \in Threads : /\ pc[t] \in AppendedPcs
                       /\ maximum[box[t]] >= 1
                       /\ mark[t] >= 0
                       /\ waited[t]

\* C8: every handle points to the state block of the constructed queue, no
\* other block holds elements, and every running call works on that block
C8_CloneShares ==
    /\ \A h \in Handles : ptr[h] # 0 => ptr[h] = ptr[1]
    /\ \A b \in Boxes : b # ptr[1] => kind[b] = "none" /\ deque[b] = <<>> /\ pushed[b] = <<>>
    /\ \A t \in Threads : box[t] # 0 => box[t] = ptr[1]

\* C8 witness: one running pop through the clone has taken a value pushed
\* through the original, another through the original a value pushed
\* through the clone
C8_Witness ==
    \E t1, t2 \in Threads :
        /\ pc[t1] \in TakenPcs /\ from[t1] = 1 /\ self[t1] = 2
        /\ pc[t2] \in TakenPcs /\ from[t2] = 2 /\ self[t2] = 1

\* C10: a thread between lock and unlock holds the mutex of its queue, and
\* no two threads are between lock and unlock of the same queue
C10_MutualExclusion ==
    /\ \A t \in Threads : pc[t] \in LockedPcs => mutex[box[t]] = t
    /\ \A t1, t2 \in Threads :
          pc[t1] \in LockedPcs /\ pc[t2] \in LockedPcs /\ box[t1] = box[t2] => t1 = t2

\* C10 witness: one thread is about to append while two others wait for the
\* mutex of the same queue
C10_Witness ==
    \E t1, t2, t3 \in Threads :
        /\ pc[t1] \in {"qpush_back", "bpush_back"}
        /\ t2 # t3
        /\ pc[t2] \in AcquirePcs /\ pc[t3] \in AcquirePcs
        /\ box[t2] = box[t1] /\ box[t3] = box[t1]

BoundedPushPcs == {"bpush_lock", "bpush_check", "bpush_wait", "bpush_woken",
                   "bpush_back", "bpush_unlock", "bpush_signal"}

SecondPushDone == ninvPush = 3 /\ pc[Second] = "idle"

C9_Safe ==
    /\ waited[Main] => pc[Main] \notin BoundedPushPcs
    /\ (pc[Second] \in AppendedPcs \/ SecondPushDone) => Len(popped[1]) >= 1
    /\ pc[Main] \in TakenPcs => item[Main] = Len(popped[1])
    /\ IsPrefix(popped[1], <<1, 2, 3>>)

ScenarioDone ==
    /\ \A t \in Threads : pc[t] = "idle"
    /\ popped[1] = <<1, 2, 3>>
    /\ \A v \in 1..3 : returned[1][v] = 1

\* C9: in the capacity-2 scenario main's push(1) and push(2) never park;
\* push(3) of the second thread does not append or complete before a pop has
\* removed an element; main's pops return 1, 2, 3 in this order; once the
\* first pop has happened push(3) eventually completes, and the script ends
\* with all three values returned
C9_Scenario ==
    /\ []C9_Safe
    /\ (ninvPush = 3 /\ Len(popped[1]) >= 1) ~> SecondPushDone
    /\ <>ScenarioDone

\* C9 witness: push(3) parked on the full queue, main's first pop removed 1,
\* and push(3) has now appended
C9_Witness ==
    /\ pc[Second] \in AppendedPcs
    /\ waited[Second]
    /\ item[Second] = 3
    /\ popped[1] = <<1>>

QueuePushPcs == {"qpush_lock", "qpush_back", "qpush_unlock", "qpush_signal"}

PopPcs == {"qpop_lock", "qpop_check", "qpop_wait", "qpop_woken", "qpop_take", "qpop_drop",
           "bpop_lock", "bpop_check", "bpop_wait", "bpop_woken", "bpop_take",
           "bpop_unlock", "bpop_signal"}

PushPcs == QueuePushPcs \cup BoundedPushPcs

AllIdle == \A t \in Threads : pc[t] = "idle"

\* the constructed queue is a BoundedQueue of capacity 0
ZeroCapacity == kind[1] = "BoundedQueue" /\ maximum[1] = 0

\* C6: for Queue and for BoundedQueue with K >= 1, under fair scheduling and
\* fair lock acquisition: when as many pops as pushes are invoked every call
\* eventually returns; when at least as many pushes as pops are invoked every
\* pop eventually returns; when at most K more pushes than pops are invoked
\* every push eventually returns
C6_Liveness ==
    ZeroCapacity \/
    /\ <>[](ninvPush = ninvPop) => <>[]AllIdle
    /\ <>[](ninvPush >= ninvPop) => <>[](\A t \in Threads : pc[t] \notin PopPcs)
    /\ <>[](ninvPush <= ninvPop + maximum[1] \/ kind[1] = "Queue")
          => <>[](\A t \in Threads : pc[t] \notin PushPcs)

\* C6 witness: a pop that parked has removed its element and a bounded push
\* that parked has appended its item
C6_Witness ==
    \E t1, t2 \in Threads :
        /\ pc[t1] \in TakenPcs /\ waited[t1]
        /\ pc[t2] \in AppendedPcs /\ waited[t2]

\* C7 as stated, third part: when a Queue::push returns, the length is one
\* more than it was just before the append of that push
C7_LengthAtReturnAsStated ==
    [][\A t \in Threads :
          pc[t] = "qpush_signal" /\ pc'[t] = "idle"
              => Len(deque'[box[t]]) = lenBefore[t] + 1]_vars

\* C7 amended: a Queue::push is never parked on a condition; right after its
\* append, while it still holds the mutex, the length is one more than just
\* before the append (at the return it may differ: other threads push and pop
\* after the unlock); and under fair lock acquisition every push returns,
\* whatever the consumers do
C7_QueuePush ==
    /\ [](\A t \in Threads : pc[t] \in QueuePushPcs
             => ~waited[t] /\ \A b \in Boxes : t \notin not_empty[b] \cup not_full[b])
    /\ [](\A t \in Threads : pc[t] = "qpush_unlock"
             => Len(deque[box[t]]) = lenBefore[t] + 1)
    /\ \A t \in Threads : (pc[t] \in QueuePushPcs) ~> (pc[t] = "idle")

\* C7 witness: a push has appended to a non-empty queue while a consumer is
\* still parked on not_empty
C7_Witness ==
    \E t, u \in Threads :
        /\ pc[t] = "qpush_unlock" /\ lenBefore[t] >= 1
        /\ pc[u] = "qpop_wait" /\ box[u] = box[t]

\* pcs of a call that has released the mutex and is about to signal
SignalPcs == {"qpush_signal", "bpush_signal", "bpop_signal"}

\* pcs at which the loop condition is evaluated and the wait is issued
CheckPcs == {"qpop_check", "bpop_check", "bpush_check"}

\* pcs of a thread parked in a wait set
WaitPcs == {"qpop_wait", "bpop_wait", "bpush_wait"}

\* C11 as stated: every signal is issued by a thread holding the queue's lock
C11_SignalUnderLockAsStated ==
    \A t \in Threads : pc[t] \in SignalPcs => mutex[box[t]] = t

\* C11 amended: every wait on a condition is issued by a thread holding the
\* queue's lock, and every signal (push on not_empty, bounded pop on
\* not_full) is issued after the unlock, by a thread not holding the lock
C11_CondAccess ==
    /\ \A t \in Threads : pc[t] \in CheckPcs => mutex[box[t]] = t
    /\ \A t \in Threads : pc[t] \in SignalPcs => mutex[box[t]] # t

\* C11 witness: a thread is about to signal a condition with a parked waiter
\* while another thread holds the mutex
C11_Witness ==
    \E t, u \in Threads :
        /\ pc[t] \in SignalPcs
        /\ u # t /\ mutex[box[t]] = u
        /\ not_empty[box[t]] \cup not_full[box[t]] # {}

QueuePopPcs == {"qpop_lock", "qpop_check", "qpop_wait", "qpop_woken", "qpop_take", "qpop_drop"}

\* the step is a signal-one of thread t on the wait sets c of box b: nothing
\* happens when nobody is parked, otherwise exactly one parked thread leaves
\* the wait set and no third thread moves
SignalsOne(t, c, b) ==
    \/ c[b] = {} /\ c' = c /\ \A u \in Threads \ {t} : pc'[u] = pc[u]
    \/ \E w \in c[b] :
          /\ c' = [c EXCEPT ![b] = @ \ {w}]
          /\ pc'[w] = Woken(pc[w])
          /\ \A u \in Threads \ {t, w} : pc'[u] = pc[u]

\* C12: a push returns only by its signal step, reached after its append and
\* after its unlock, and that step is one signal-one on not_empty; a
\* BoundedQueue::pop returns only by its signal step, reached after its
\* removal and its unlock, and that step is one signal-one on not_full;
\* Queue::pop returns without touching a wait set, and none of its own steps
\* takes a thread out of a wait set
C12_SignalProtocol ==
    /\ [](\A t \in Threads :
             /\ pc[t] \in {"qpush_signal", "bpush_signal"}
                   => mutex[box[t]] # t /\ lenBefore[t] >= 0
             /\ pc[t] = "bpop_signal" => mutex[box[t]] # t /\ from[t] # 0)
    /\ [][\A t \in Threads : pc[t] # "idle" /\ pc'[t] = "idle" =>
             CASE pc[t] \in {"qpush_signal", "bpush_signal"} ->
                      SignalsOne(t, not_empty, box[t]) /\ not_full' = not_full
               [] pc[t] = "bpop_signal" ->
                      SignalsOne(t, not_full, box[t]) /\ not_empty' = not_empty
               [] pc[t] = "qpop_drop" ->
                      /\ not_empty' = not_empty /\ not_full' = not_full
                      /\ \A u \in Threads \ {t} : pc'[u] = pc[u]
               [] OTHER -> FALSE]_vars
    /\ [][\A t \in Threads :
             pc[t] \in QueuePopPcs \ {"qpop_wait"} /\ pc'[t] # pc[t] =>
                 /\ \A b \in Boxes : not_empty[b] \subseteq not_empty'[b]
                 /\ not_full' = not_full]_vars

\* C12 witness: a push has appended and unlocked and is about to signal
\* not_empty, on which two consumers are parked
C12_Witness ==
    \E t \in Threads :
        /\ pc[t] \in {"qpush_signal", "bpush_signal"}
        /\ Cardinality(not_empty[box[t]]) >= 2

\* every thread that has not finished its call is parked on a condition variable
AllParked ==
    /\ \A t \in Threads : pc[t] \in WaitPcs \cup {"idle"}
    /\ \E t \in Threads : pc[t] \in WaitPcs

\* C13: for capacity >= 1 there is no state in which every unfinished thread
\* is parked while a consumer is parked on a non-empty queue or a producer is
\* parked on a queue holding fewer than maximum elements
C13_NoStrandedWaiter ==
    AllParked =>
        \A b \in Boxes :
            (kind[b] = "Queue" \/ (kind[b] = "BoundedQueue" /\ maximum[b] >= 1)) =>
                /\ not_empty[b] # {} => Len(deque[b]) = 0
                /\ not_full[b] # {} => Len(deque[b]) = maximum[b]

\* C13 witness: after elements went through the queue, every unfinished
\* thread is parked, two of them, on a queue of capacity >= 1 or unbounded
C13_Witness ==
    /\ AllParked
    /\ ~ZeroCapacity
    /\ \E b \in Boxes :
          /\ Len(popped[b]) >= 1
          /\ Cardinality(not_empty[b] \cup not_full[b]) >= 2

\* C14 as stated: a push whose append found the queue non-empty issues no
\* signal, so its return leaves the not_empty wait set as it was
C14_SignalOnlyFromEmptyAsStated ==
    [][\A t \in Threads :
          /\ pc[t] \in {"qpush_signal", "bpush_signal"}
          /\ pc'[t] = "idle"
          /\ lenBefore[t] >= 1
          => not_empty' = not_empty]_vars

\* C14 amended: not_empty is signaled by every push and not_full by every
\* BoundedQueue::pop, whatever the length found: whenever a push returns while
\* a consumer is parked, a consumer leaves not_empty, and whenever a bounded
\* pop returns while a producer is parked, a producer leaves not_full
C14_SignalAlways ==
    [][\A t \in Threads :
          /\ (pc[t] \in {"qpush_signal", "bpush_signal"} /\ pc'[t] = "idle"
                 /\ not_empty[box[t]] # {})
             => (\E w \in not_empty[box[t]] : w \notin not_empty'[box[t]])
          /\ (pc[t] = "bpop_signal" /\ pc'[t] = "idle" /\ not_full[box[t]] # {})
             => (\E w \in not_full[box[t]] : w \notin not_full'[box[t]])]_vars

\* C14 witness: a push whose append found the queue non-empty is about to
\* signal while a consumer is parked on not_empty
C14_Witness ==
    \E t \in Threads :
        /\ pc[t] \in {"qpush_signal", "bpush_signal"}
        /\ lenBefore[t] >= 1
        /\ not_empty[box[t]] # {}

\* the state of the box's queue: EMPTY at length 0, FULL at length = maximum
\* (bounded only), PARTIAL otherwise
QState(b) ==
    IF Len(deque[b]) = 0 THEN "EMPTY"
    ELSE IF kind[b] = "BoundedQueue" /\ Len(deque[b]) = maximum[b] THEN "FULL"
    ELSE "PARTIAL"

\* the thread takes the step of its call that appends / that removes
PushMoves(t) == pc[t] \in {"qpush_back", "bpush_back"} /\ pc'[t] # pc[t]
PopMoves(t) == pc[t] \in {"qpop_take", "bpop_take"} /\ pc'[t] # pc[t]

BoundedPushLoopPcs == {"bpush_lock", "bpush_check", "bpush_wait", "bpush_woken"}

\* pcs of a pop before its removal
PopLoopPcs == {"qpop_lock", "qpop_check", "qpop_wait", "qpop_woken",
               "bpop_lock", "bpop_check", "bpop_wait", "bpop_woken"}

\* in a queue built by BoundedQueue::new(0) nothing was ever appended or
\* removed, and every call invoked so far is still inside its wait loop
C16_Stuck ==
    /\ \A b \in Boxes :
          deque[b] = <<>> /\ pushed[b] = <<>> /\ popped[b] = <<>>
    /\ \A t \in Threads : pc[t] \in {"idle"} \cup BoundedPushLoopPcs \cup PopLoopPcs
    /\ ninvPush = Cardinality({t \in Threads : pc[t] \in BoundedPushLoopPcs})
    /\ ninvPop = Cardinality({t \in Threads : pc[t] \in PopLoopPcs})

\* C16: BoundedQueue::new(0) constructs a queue; afterwards no push appends or
\* returns, the queue stays empty, no pop returns, and every producer is
\* parked on not_full again and again
C16_ZeroCapacity ==
    /\ [](ZeroCapacity => C16_Stuck)
    /\ \A t \in Threads :
          (ZeroCapacity /\ pc[t] \in BoundedPushLoopPcs) ~> (pc[t] = "bpush_wait")

\* C16 witness: on a queue of capacity 0 a producer that was parked has been
\* woken spuriously and a consumer is parked
C16_Witness ==
    /\ ZeroCapacity
    /\ \E t, u \in Threads :
          /\ pc[t] = "bpush_woken" /\ waited[t]
          /\ pc[u] = "bpop_wait"

\* C18: a push changes the deque only by appending its item at the back, a
\* pop only by removing the front element (the one it returns); every other
\* step (waiting, waking, re-checking, locking, unlocking, signalling, clone)
\* leaves the deque unchanged; the capacity never changes after construction
C18_Frame ==
    [][/\ \A b \in Boxes :
             /\ \A t \in Threads : box[t] = b /\ PushMoves(t) =>
                   deque'[b] = Append(deque[b], item[t])
             /\ \A t \in Threads : box[t] = b /\ PopMoves(t) =>
                   /\ deque[b] # <<>>
                   /\ deque'[b] = Tail(deque[b])
                   /\ item'[t] = Head(deque[b])
             /\ (\A t \in Threads : box[t] = b => ~PushMoves(t) /\ ~PopMoves(t))
                   => deque'[b] = deque[b]
       /\ maximum' = maximum
       /\ kind' = kind]_vars

\* C18 witness: two elements are in the deque after a pop removed one, and a
\* clone of the handle exists
C18_Witness ==
    \E b \in Boxes :
        /\ Len(deque[b]) = 2
        /\ Len(popped[b]) >= 1
        /\ \A h \in Handles : ptr[h] = b

\* C19: a thread parked in a condition wait, woken and not yet re-acquiring,
\* or returned from its call does not hold any mutex; a woken thread holds
\* the mutex again at its re-check; and the mutex of a queue is free whenever
\* no thread is between acquiring it and releasing it or parking
C19_LockDiscipline ==
    /\ \A t \in Threads : \A b \in Boxes :
          pc[t] \in WaitPcs \cup {"idle"} \cup SignalPcs \cup AcquirePcs
              => mutex[b] # t
    /\ \A t \in Threads : pc[t] \in CheckPcs /\ waited[t] => mutex[box[t]] = t
    /\ \A b \in Boxes :
          (\A t \in Threads : ~(pc[t] \in LockedPcs /\ box[t] = b)) => mutex[b] = 0

\* C19 witness: one consumer is parked, every other thread has returned from
\* a call that went through the lock, and the mutex is free
C19_Witness ==
    \E t \in Threads : \E b \in Boxes :
        /\ pc[t] \in WaitPcs /\ box[t] = b
        /\ \A u \in Threads \ {t} : pc[u] = "idle"
        /\ Len(popped[b]) >= 1
        /\ mutex[b] = 0

\* ---- Queue as a successor function on the observable state ----

\* the step of a BoundedQueue call named by the step of the Queue call it
\* corresponds to: BoundedQueue::push tests the length between lock and
\* push_back (no step of Queue::push), BoundedQueue::pop has returned its
\* item once it has unlocked (its signal on not_full is no step of Queue::pop)
CanonPc(p) ==
    CASE p = "bpop_lock" -> "qpop_lock"
      [] p = "bpop_check" -> "qpop_check"
      [] p = "bpop_wait" -> "qpop_wait"
      [] p = "bpop_woken" -> "qpop_woken"
      [] p = "bpop_take" -> "qpop_take"
      [] p = "bpop_unlock" -> "qpop_drop"
      [] p = "bpop_signal" -> "idle"
      [] p = "bpush_lock" -> "qpush_lock"
      [] p = "bpush_check" -> "qpush_back"
      [] p = "bpush_back" -> "qpush_back"
      [] p = "bpush_unlock" -> "qpush_unlock"
      [] p = "bpush_signal" -> "qpush_signal"
      [] OTHER -> p

\* the observable state of the constructed queue: the deque, the lock, the
\* consumers parked, the handles, where every thread is in its call and with
\* which item, the order of appends, the order of removals, the values
\* returned by pops and the numbers of calls invoked
Canon ==
    [pc |-> [t \in Threads |-> CanonPc(pc[t])],
     item |-> [t \in Threads |-> IF pc[t] = "bpop_signal" THEN 0 ELSE item[t]],
     deque |-> deque[1],
     mutex |-> mutex[1],
     not_empty |-> not_empty[1],
     ptr |-> ptr,
     pushed |-> pushed[1],
     popped |-> popped[1],
     returned |-> [v \in AllValues |-> returned[1][v] +
                     Cardinality({t \in Threads : pc[t] = "bpop_signal" /\ item[t] = v})],
     ninvPush |-> ninvPush,
     ninvPop |-> ninvPop]

\* the observable states one step of thread t in Queue::pop or Queue::push
\* (or the spurious wakeup of t) leads to from c, when at most L pushes are
\* invoked
QueueSteps(c, t, L) ==
    LET p == c.pc[t]
        h == ((t - 1) % MaxHandles) + 1
    IN CASE p = "idle" ->
               IF c.ninvPush + c.ninvPop < MaxCalls /\ c.ptr[h] # 0
               THEN {[c EXCEPT !.pc[t] = "qpop_lock", !.ninvPop = @ + 1]}
                    \cup {[c EXCEPT !.pc[t] = "qpush_lock", !.item[t] = v,
                                    !.ninvPush = @ + 1] :
                             v \in IF c.ninvPush < L THEN Values ELSE {}}
               ELSE {}
         [] p \in {"qpop_lock", "qpop_woken"} ->
               IF c.mutex = 0
               THEN {[c EXCEPT !.mutex = t, !.pc[t] = "qpop_check"]}
               ELSE {}
         [] p = "qpop_check" ->
               IF Len(c.deque) = 0
               THEN {[c EXCEPT !.mutex = 0, !.not_empty = @ \cup {t},
                               !.pc[t] = "qpop_wait"]}
               ELSE {[c EXCEPT !.pc[t] = "qpop_take"]}
         [] p = "qpop_wait" ->
               {[c EXCEPT !.not_empty = @ \ {t}, !.pc[t] = "qpop_woken"]}
         [] p = "qpop_take" ->
               IF Len(c.deque) = 0
               THEN {[c EXCEPT !.pc[t] = "failed"]}
               ELSE {[c EXCEPT !.item[t] = Head(c.deque), !.deque = Tail(@),
                               !.popped = Append(@, Head(c.deque)),
                               !.pc[t] = "qpop_drop"]}
         [] p = "qpop_drop" ->
               {[c EXCEPT !.mutex = 0, !.returned[c.item[t]] = @ + 1,
                          !.pc[t] = "idle", !.item[t] = 0]}
         [] p = "qpush_lock" ->
               IF c.mutex = 0
               THEN {[c EXCEPT !.mutex = t, !.pc[t] = "qpush_back"]}
               ELSE {}
         [] p = "qpush_back" ->
               {[c EXCEPT !.deque = Append(@, c.item[t]),
                          !.pushed = Append(@, c.item[t]),
                          !.pc[t] = "qpush_unlock"]}
         [] p = "qpush_unlock" ->
               {[c EXCEPT !.mutex = 0, !.pc[t] = "qpush_signal"]}
         [] p = "qpush_signal" ->
               IF c.not_empty = {}
               THEN {[c EXCEPT !.pc[t] = "idle", !.item[t] = 0]}
               ELSE {[c EXCEPT !.not_empty = @ \ {w}, !.pc[w] = Woken("qpop_wait"),
                               !.pc[t] = "idle", !.item[t] = 0] : w \in c.not_empty}
         [] OTHER -> {}

\* the observable states a clone of a Queue handle leads to from c
QueueCloneSteps(c) ==
    IF \E t \in Threads : c.pc[t] = "idle"
    THEN {[c EXCEPT !.ptr[x[2]] = ArcClone(c.ptr[x[1]])] :
             x \in {y \in Handles \X Handles : c.ptr[y[1]] # 0 /\ c.ptr[y[2]] = 0}}
    ELSE {}

QueueSucc(c, L) ==
    UNION {QueueSteps(c, t, L) : t \in Threads} \cup QueueCloneSteps(c)

\* the number of pushes the workload may invoke: at most the capacity on a
\* BoundedQueue, any number on a Queue
PushLimit == IF kind[1] = "BoundedQueue" THEN maximum[1] ELSE MaxCalls

\* pcs whose step has no counterpart in Queue: the length test of a bounded
\* push that finds room, the signal on not_full of a bounded pop
SilentPcs == {"bpush_check", "bpop_signal"}

Silent == Cardinality({t \in Threads : pc[t] \in SilentPcs})

\* while at most K pushes are invoked no push is parked on not_full
NoPushWaits ==
    kind[1] = "BoundedQueue" /\ ninvPush <= maximum[1] =>
        /\ not_full[1] = {}
        /\ \A t \in Threads : pc[t] \notin {"bpush_wait", "bpush_woken"}

\* every step of the program is a step of Queue on the observable state, or
\* a silent step of a bounded call that leaves the observable state unchanged
StepOfQueue ==
    ninvPush' <= PushLimit =>
        \/ Canon' \in QueueSucc(Canon, PushLimit)
        \/ /\ Canon' = Canon
           /\ \E t \in Threads : pc[t] \in SilentPcs /\ pc'[t] # pc[t]

\* every step of Queue on the observable state is a step the program can
\* take, at once or after a silent step of a bounded call
QueueStepTaken ==
    ninvPush <= PushLimit =>
        \A c \in QueueSucc(Canon, PushLimit) :
            \/ ENABLED (Next /\ Canon' = c)
            \/ ENABLED (Next /\ Canon' = Canon /\ Silent' < Silent)

\* C17: while at most K pushes are invoked on a BoundedQueue of capacity K no
\* push waits on not_full, and its observable histories (order of appends,
\* order and values of removals and returns, parked pops) are those of a
\* Queue under the same calls: each program step is a Queue step or silent,
\* and each Queue step can be taken by the program
C17_Equivalence ==
    /\ []NoPushWaits
    /\ [][StepOfQueue]_vars
    /\ []QueueStepTaken

\* C17 witness: on a BoundedQueue of capacity 2 both pushes of the workload
\* have appended and a pop has removed an element and not yet signalled
C17_Witness ==
    /\ kind[1] = "BoundedQueue" /\ maximum[1] = 2
    /\ ninvPush = 2 /\ Len(pushed[1]) = 2
    /\ \E t \in Threads : pc[t] = "bpop_signal"
====
